---- MODULE Spec2Model ----
(***************************************************************************)
(* Workspace discovery, the configuration singleton and the lazy API       *)
(* client pool of the n8n MCP server (config/workspace-config.ts and the   *)
(* workspace API client manager).                                          *)
(*                                                                         *)
(* JavaScript strings are sequences of one-character strings.  The values  *)
(* undefined and null, where a string may stand, are the one-element       *)
(* sequences <<"undefined">> and <<"null">>, which no string equals.  A    *)
(* null object reference is the record Null.  Every exported function is   *)
(* synchronous, so a call runs to completion: one action per call.         *)
(***************************************************************************)
EXTENDS Integers, Sequences, FiniteSets, TLC

VARIABLES
  env,            \* process.env
  configInstance, \* the configuration singleton
  manager,        \* the manager singleton
  loads,          \* number of runs of loadWorkspaceConfig so far
  managers,       \* number of managers constructed so far
  constructed,    \* the handles the current manager has constructed
  configResets,   \* number of calls of resetWorkspaceConfig so far
  envWrites,      \* number of changes of the environment so far
  discoveredBy,   \* the caller whose call ran the latest discovery
  last            \* the latest call: caller, operation, argument, value returned

vars == <<env, configInstance, manager, loads, managers, constructed,
          configResets, envWrites, discoveredBy, last>>

(***************************************************************************)
(* Bounds                                                                  *)
(***************************************************************************)
MaxUrlVars == 2
MaxConfigResets == 1
MaxEnvWrites == 1
MaxLoads == 2
MaxManagers == 2
MaxClients == 3

(***************************************************************************)
(* JavaScript values and strings                                           *)
(***************************************************************************)
undefined == <<"undefined">>
null == <<"null">>
Null == [null |-> TRUE]

Truthy(s) == s # undefined /\ s # null /\ s # <<>>

UpperChars == <<"A", "B", "C", "D", "E", "F", "G", "H", "I", "J", "K", "L", "M",
                "N", "O", "P", "Q", "R", "S", "T", "U", "V", "W", "X", "Y", "Z">>
LowerChars == <<"a", "b", "c", "d", "e", "f", "g", "h", "i", "j", "k", "l", "m",
                "n", "o", "p", "q", "r", "s", "t", "u", "v", "w", "x", "y", "z">>

LowerChar(c) ==
  IF \E i \in 1..Len(UpperChars) : UpperChars[i] = c
  THEN LowerChars[CHOOSE i \in 1..Len(UpperChars) : UpperChars[i] = c]
  ELSE c

toLowerCase(s) == [i \in 1..Len(s) |-> LowerChar(s[i])]

startsWith(s, p) == Len(s) >= Len(p) /\ SubSeq(s, 1, Len(p)) = p

substring(s, n) == SubSeq(s, n + 1, Len(s))

RECURSIVE join(_, _)
join(list, sep) ==
  IF list = <<>> THEN <<>>
  ELSE IF Len(list) = 1 THEN list[1]
  ELSE list[1] \o sep \o join(Tail(list), sep)

(***************************************************************************)
(* String literals of the source                                           *)
(***************************************************************************)
urlPrefix == <<"N", "8", "N", "_", "U", "R", "L", "_">>
tokenPrefix == <<"N", "8", "N", "_", "T", "O", "K", "E", "N", "_">>
N8N_API_URL == <<"N", "8", "N", "_", "A", "P", "I", "_", "U", "R", "L">>
N8N_API_KEY == <<"N", "8", "N", "_", "A", "P", "I", "_", "K", "E", "Y">>
N8N_DEFAULT_WORKSPACE ==
  <<"N", "8", "N", "_", "D", "E", "F", "A", "U", "L", "T", "_",
    "W", "O", "R", "K", "S", "P", "A", "C", "E">>
defaultName == <<"d", "e", "f", "a", "u", "l", "t">>
instanceIdPrefix == <<"w", "o", "r", "k", "s", "p", "a", "c", "e", "-">>

(***************************************************************************)
(* process.env: an ordered list of entries with distinct keys              *)
(***************************************************************************)
envKeys(e) == {e[i].key : i \in 1..Len(e)}

envGet(e, k) ==
  IF k \in envKeys(e)
  THEN e[CHOOSE i \in 1..Len(e) : e[i].key = k].value
  ELSE undefined

envSet(e, k, v) ==
  IF k \in envKeys(e)
  THEN [i \in 1..Len(e) |-> IF e[i].key = k THEN [key |-> k, value |-> v] ELSE e[i]]
  ELSE Append(e, [key |-> k, value |-> v])

envDelete(e, k) == SelectSeq(e, LAMBDA x : x.key # k)

(***************************************************************************)
(* Map<string, WorkspaceConfig>: entries in insertion order; set() of a    *)
(* key already present keeps the key's position                            *)
(***************************************************************************)
MapKeys(m) == [i \in 1..Len(m) |-> m[i].name]

MapHas(m, k) == \E i \in 1..Len(m) : m[i].name = k

MapGet(m, k) ==
  IF MapHas(m, k) THEN m[CHOOSE i \in 1..Len(m) : m[i].name = k] ELSE Null

MapSet(m, k, v) ==
  IF MapHas(m, k)
  THEN [i \in 1..Len(m) |-> IF m[i].name = k THEN v ELSE m[i]]
  ELSE Append(m, v)

(***************************************************************************)
(* workspace-config.ts                                                     *)
(***************************************************************************)
\* the scan that reads the token of the lower-cased name
RECURSIVE scanEnvTokenByName(_, _, _)
scanEnvTokenByName(e, i, workspaces) ==
  IF i > Len(e) THEN workspaces
  ELSE
    LET envVar == e[i].key
        value == e[i].value
    IN IF startsWith(envVar, urlPrefix) /\ Truthy(value)
       THEN LET workspaceName == toLowerCase(substring(envVar, Len(urlPrefix)))
                tokenEnvVar == tokenPrefix \o workspaceName
                token == envGet(e, tokenEnvVar)
            IN IF ~Truthy(workspaceName) \/ ~Truthy(token)
               THEN scanEnvTokenByName(e, i + 1, workspaces)
               ELSE scanEnvTokenByName(e, i + 1,
                                       MapSet(workspaces, workspaceName,
                                              [name |-> workspaceName,
                                               url |-> value,
                                               token |-> token,
                                               urlEnvVar |-> envVar,
                                               tokenEnvVar |-> tokenEnvVar]))
       ELSE scanEnvTokenByName(e, i + 1, workspaces)

\* the scan that does not ask for the token
RECURSIVE scanEnvNoTokenCheck(_, _, _)
scanEnvNoTokenCheck(e, i, workspaces) ==
  IF i > Len(e) THEN workspaces
  ELSE
    LET envVar == e[i].key
        value == e[i].value
    IN IF startsWith(envVar, urlPrefix) /\ Truthy(value)
       THEN LET workspaceName == toLowerCase(substring(envVar, Len(urlPrefix)))
                tokenEnvVar == tokenPrefix \o substring(envVar, Len(urlPrefix))
                token == envGet(e, tokenEnvVar)
            IN IF ~Truthy(workspaceName)
               THEN scanEnvNoTokenCheck(e, i + 1, workspaces)
               ELSE scanEnvNoTokenCheck(e, i + 1,
                                        MapSet(workspaces, workspaceName,
                                               [name |-> workspaceName,
                                                url |-> value,
                                                token |-> token,
                                                urlEnvVar |-> envVar,
                                                tokenEnvVar |-> tokenEnvVar]))
       ELSE scanEnvNoTokenCheck(e, i + 1, workspaces)

\* the scan that keeps the case of <NAME>
RECURSIVE scanEnvKeepCase(_, _, _)
scanEnvKeepCase(e, i, workspaces) ==
  IF i > Len(e) THEN workspaces
  ELSE
    LET envVar == e[i].key
        value == e[i].value
    IN IF startsWith(envVar, urlPrefix) /\ Truthy(value)
       THEN LET workspaceName == substring(envVar, Len(urlPrefix))
                tokenEnvVar == tokenPrefix \o substring(envVar, Len(urlPrefix))
                token == envGet(e, tokenEnvVar)
            IN IF ~Truthy(workspaceName) \/ ~Truthy(token)
               THEN scanEnvKeepCase(e, i + 1, workspaces)
               ELSE scanEnvKeepCase(e, i + 1,
                                    MapSet(workspaces, workspaceName,
                                           [name |-> workspaceName,
                                            url |-> value,
                                            token |-> token,
                                            urlEnvVar |-> envVar,
                                            tokenEnvVar |-> tokenEnvVar]))
       ELSE scanEnvKeepCase(e, i + 1, workspaces)

RECURSIVE scanEnv(_, _, _)
scanEnv(e, i, workspaces) ==
  IF i > Len(e) THEN workspaces
  ELSE
    LET envVar == e[i].key
        value == e[i].value
    IN IF startsWith(envVar, urlPrefix) /\ Truthy(value)
       THEN LET workspaceName == toLowerCase(substring(envVar, Len(urlPrefix)))
                tokenEnvVar == tokenPrefix \o substring(envVar, Len(urlPrefix))
                token == envGet(e, tokenEnvVar)
            IN IF ~Truthy(workspaceName) \/ ~Truthy(token)
               THEN scanEnv(e, i + 1, workspaces)
               ELSE scanEnv(e, i + 1,
                            MapSet(workspaces, workspaceName,
                                   [name |-> workspaceName,
                                    url |-> value,
                                    token |-> token,
                                    urlEnvVar |-> envVar,
                                    tokenEnvVar |-> tokenEnvVar]))
       ELSE scanEnv(e, i + 1, workspaces)

\* the fallback taken whatever the scan has found
fallbackWorkspacesAlways(e, workspaces) ==
  LET fallbackUrl == envGet(e, N8N_API_URL)
      fallbackKey == envGet(e, N8N_API_KEY)
  IN IF Truthy(fallbackUrl) /\ Truthy(fallbackKey)
     THEN MapSet(workspaces, defaultName,
                 [name |-> defaultName,
                  url |-> fallbackUrl,
                  token |-> fallbackKey,
                  urlEnvVar |-> N8N_API_URL,
                  tokenEnvVar |-> N8N_API_KEY])
     ELSE workspaces

\* the fallback taken when either of the two variables is set
fallbackWorkspacesEitherSet(e, workspaces) ==
  IF Len(workspaces) = 0
  THEN LET fallbackUrl == envGet(e, N8N_API_URL)
           fallbackKey == envGet(e, N8N_API_KEY)
       IN IF Truthy(fallbackUrl) \/ Truthy(fallbackKey)
          THEN MapSet(workspaces, defaultName,
                      [name |-> defaultName,
                       url |-> fallbackUrl,
                       token |-> fallbackKey,
                       urlEnvVar |-> N8N_API_URL,
                       tokenEnvVar |-> N8N_API_KEY])
          ELSE workspaces
  ELSE workspaces

fallbackWorkspaces(e, workspaces) ==
  IF Len(workspaces) = 0
  THEN LET fallbackUrl == envGet(e, N8N_API_URL)
           fallbackKey == envGet(e, N8N_API_KEY)
       IN IF Truthy(fallbackUrl) /\ Truthy(fallbackKey)
          THEN MapSet(workspaces, defaultName,
                      [name |-> defaultName,
                       url |-> fallbackUrl,
                       token |-> fallbackKey,
                       urlEnvVar |-> N8N_API_URL,
                       tokenEnvVar |-> N8N_API_KEY])
          ELSE workspaces
  ELSE workspaces

\* the default taken from N8N_DEFAULT_WORKSPACE without the test workspaces.has
determineDefaultUnchecked(e, workspaces) ==
  LET raw == envGet(e, N8N_DEFAULT_WORKSPACE)
      envDefault == IF raw = undefined THEN undefined ELSE toLowerCase(raw)
  IN IF Truthy(envDefault)
     THEN envDefault
     ELSE IF Len(workspaces) > 0 THEN MapKeys(workspaces)[1] ELSE null

\* the default taken from N8N_DEFAULT_WORKSPACE as written, not lower-cased
determineDefaultCaseSensitive(e, workspaces) ==
  LET envDefault == envGet(e, N8N_DEFAULT_WORKSPACE)
  IN IF Truthy(envDefault) /\ MapHas(workspaces, envDefault)
     THEN envDefault
     ELSE IF Len(workspaces) > 0 THEN MapKeys(workspaces)[1] ELSE null

determineDefault(e, workspaces) ==
  LET raw == envGet(e, N8N_DEFAULT_WORKSPACE)
      envDefault == IF raw = undefined THEN undefined ELSE toLowerCase(raw)
  IN IF Truthy(envDefault) /\ MapHas(workspaces, envDefault)
     THEN envDefault
     ELSE IF Len(workspaces) > 0 THEN MapKeys(workspaces)[1] ELSE null

loadWorkspaceConfig(e) ==
  LET workspaces == fallbackWorkspaces(e, scanEnv(e, 1, <<>>))
  IN [workspaces |-> workspaces,
      defaultWorkspace |-> determineDefault(e, workspaces)]

\* getWorkspace taking the default only for a name that is undefined
getWorkspaceEmptyIsName(config, name) ==
  LET workspaceName == IF name = undefined THEN config.defaultWorkspace
                       ELSE toLowerCase(name)
  IN IF ~Truthy(workspaceName) THEN Null
     ELSE MapGet(config.workspaces, workspaceName)

\* getWorkspace looking the name up as written
getWorkspaceCaseSensitive(config, name) ==
  LET workspaceName == IF Truthy(name) THEN name ELSE config.defaultWorkspace
  IN IF ~Truthy(workspaceName) THEN Null
     ELSE MapGet(config.workspaces, workspaceName)

getWorkspace(config, name) ==
  LET lowered == IF name = undefined THEN undefined ELSE toLowerCase(name)
      workspaceName == IF Truthy(lowered) THEN lowered ELSE config.defaultWorkspace
  IN IF ~Truthy(workspaceName) THEN Null
     ELSE MapGet(config.workspaces, workspaceName)

\* isMultiWorkspaceMode true from one workspace on
isMultiWorkspaceModeFromOne(config) == Len(config.workspaces) > 0

isMultiWorkspaceMode(config) == Len(config.workspaces) > 1

getAvailableWorkspaces(config) == MapKeys(config.workspaces)

\* workspaceToInstanceContext with the bare name as instanceId
workspaceToInstanceContextBareId(workspace) ==
  [n8nApiUrl |-> workspace.url,
   n8nApiKey |-> workspace.token,
   instanceId |-> workspace.name]

workspaceToInstanceContext(workspace) ==
  [n8nApiUrl |-> workspace.url,
   n8nApiKey |-> workspace.token,
   instanceId |-> instanceIdPrefix \o workspace.name]

(***************************************************************************)
(* Configuration singleton (workspace-config.ts, module state)             *)
(*                                                                         *)
(* An object is its content and the number of its allocation, so that two  *)
(* objects built from the same environment are still two objects.          *)
(***************************************************************************)
newConfig(e, n) ==
  LET c == loadWorkspaceConfig(e)
  IN [id |-> n, workspaces |-> c.workspaces, defaultWorkspace |-> c.defaultWorkspace]

\* getWorkspaceConfig without the test of configInstance
mustLoadAlways == TRUE

\* if (!configInstance)
mustLoad == configInstance = Null

\* the value getWorkspaceConfig() returns, and leaves in configInstance
getWorkspaceConfig ==
  IF mustLoad THEN newConfig(env, loads + 1) ELSE configInstance

canLoad == ~mustLoad \/ loads < MaxLoads

Result(c, op, arg, ret) == [caller |-> c, op |-> op, arg |-> arg, ret |-> ret]

GetWorkspaceConfig(c) ==
  /\ canLoad
  /\ configInstance' = getWorkspaceConfig
  /\ loads' = IF mustLoad THEN loads + 1 ELSE loads
  /\ discoveredBy' = IF mustLoad THEN c ELSE discoveredBy
  /\ last' = Result(c, "getWorkspaceConfig", undefined, getWorkspaceConfig)
  /\ UNCHANGED <<env, manager, managers, constructed, configResets,
                 envWrites>>

ResetWorkspaceConfig(c) ==
  /\ configResets < MaxConfigResets
  /\ configInstance' = Null
  /\ configResets' = configResets + 1
  /\ last' = Result(c, "resetWorkspaceConfig", undefined, undefined)
  /\ UNCHANGED <<env, manager, loads, managers, constructed,
                 envWrites, discoveredBy>>

(***************************************************************************)
(* WorkspaceApiClientManager                                               *)
(***************************************************************************)
\* constructor
newManager(n, config) == [id |-> n, clients |-> <<>>, workspaceConfig |-> config]

clientsHas(clients, name) == \E i \in 1..Len(clients) : clients[i].name = name

clientsGet(clients, name) ==
  clients[CHOOSE i \in 1..Len(clients) : clients[i].name = name].client

\* new N8nApiClient({baseUrl, apiKey}): the n-th handle constructed in pool
newClient(pool, n, workspace) ==
  [pool |-> pool, id |-> n, baseUrl |-> workspace.url, apiKey |-> workspace.token]

\* getOrCreateClient constructing a handle on every call and storing it under
\* the name, in place of the one stored before
getOrCreateClientReplacing(m, workspace, n) ==
  LET client == newClient(m.id, n, workspace)
      entry == [name |-> workspace.name, client |-> client]
  IN [manager |->
        [m EXCEPT !.clients =
           IF clientsHas(@, workspace.name)
           THEN [i \in 1..Len(@) |-> IF @[i].name = workspace.name THEN entry ELSE @[i]]
           ELSE Append(@, entry)],
      client |-> client]

\* getOrCreateClient without the look-up in the cache
getOrCreateClientNoCache(m, workspace, n) ==
  LET client == newClient(m.id, n, workspace)
  IN [manager |-> [m EXCEPT !.clients =
                      Append(@, [name |-> workspace.name, client |-> client])],
      client |-> client]

\* getOrCreateClient: the manager after the call and the handle returned
getOrCreateClient(m, workspace, n) ==
  IF clientsHas(m.clients, workspace.name)
  THEN [manager |-> m, client |-> clientsGet(m.clients, workspace.name)]
  ELSE LET client == newClient(m.id, n, workspace)
       IN [manager |-> [m EXCEPT !.clients =
                           Append(@, [name |-> workspace.name, client |-> client])],
           client |-> client]

getClient(m, workspaceName, n) ==
  LET workspace == getWorkspace(m.workspaceConfig, workspaceName)
  IN IF workspace = Null
     THEN [manager |-> m, client |-> Null]
     ELSE getOrCreateClient(m, workspace, n)

getInstanceContext(m, workspaceName) ==
  LET workspace == getWorkspace(m.workspaceConfig, workspaceName)
  IN IF workspace = Null THEN Null ELSE workspaceToInstanceContext(workspace)

isMultiWorkspace(m) == isMultiWorkspaceMode(m.workspaceConfig)

managerGetAvailableWorkspaces(m) == getAvailableWorkspaces(m.workspaceConfig)

getDefaultWorkspace(m) == m.workspaceConfig.defaultWorkspace

managerGetWorkspaceConfig(m, workspaceName) ==
  getWorkspace(m.workspaceConfig, workspaceName)

notFoundHead == <<"W", "o", "r", "k", "s", "p", "a", "c", "e", " ", "'">>
notFoundMid ==
  <<"'", " ", "n", "o", "t", " ", "f", "o", "u", "n", "d", ".", " ",
    "A", "v", "a", "i", "l", "a", "b", "l", "e", " ",
    "w", "o", "r", "k", "s", "p", "a", "c", "e", "s", ":", " ">>
noneText == <<"n", "o", "n", "e">>
commaSpace == <<",", " ">>
notConfiguredMessage ==
  <<"N", "o", " ", "n", "8", "n", " ", "w", "o", "r", "k", "s", "p", "a", "c", "e", " ",
    "c", "o", "n", "f", "i", "g", "u", "r", "e", "d", ".", " ", "S", "e", "t", " ",
    "N", "8", "N", "_", "U", "R", "L", "_", "*", " ", "a", "n", "d", " ",
    "N", "8", "N", "_", "T", "O", "K", "E", "N", "_", "*", " ",
    "e", "n", "v", " ", "v", "a", "r", "s", ",", " ", "o", "r", " ",
    "N", "8", "N", "_", "A", "P", "I", "_", "U", "R", "L", " ", "a", "n", "d", " ",
    "N", "8", "N", "_", "A", "P", "I", "_", "K", "E", "Y", " ", "f", "o", "r", " ",
    "s", "i", "n", "g", "l", "e", "-", "i", "n", "s", "t", "a", "n", "c", "e", " ",
    "m", "o", "d", "e", ".">>

\* getWorkspaceNotFoundError without the `|| 'none'`
getWorkspaceNotFoundErrorNoNone(m, workspaceName) ==
  IF Truthy(workspaceName)
  THEN notFoundHead \o workspaceName \o notFoundMid
         \o join(managerGetAvailableWorkspaces(m), commaSpace)
  ELSE notConfiguredMessage

getWorkspaceNotFoundError(m, workspaceName) ==
  LET available == managerGetAvailableWorkspaces(m)
      joined == join(available, commaSpace)
  IN IF Truthy(workspaceName)
     THEN notFoundHead \o workspaceName \o notFoundMid
            \o (IF Truthy(joined) THEN joined ELSE noneText)
     ELSE notConfiguredMessage

(***************************************************************************)
(* Manager singleton and the exported helpers                              *)
(***************************************************************************)
\* if (!manager)
mustBuild == manager = Null

canBuild == ~mustBuild \/ (managers < MaxManagers /\ canLoad)

\* a manager getter that reads the environment again on every access
getWorkspaceApiClientManagerRereading ==
  IF mustBuild THEN newManager(managers + 1, getWorkspaceConfig)
  ELSE [manager EXCEPT !.workspaceConfig = newConfig(env, @.id)]

\* the value getWorkspaceApiClientManager() returns, and leaves in manager
getWorkspaceApiClientManager ==
  IF mustBuild THEN newManager(managers + 1, getWorkspaceConfig) ELSE manager

\* what a call of getWorkspaceApiClientManager() by c does to the two singletons
AcquireManager(c) ==
  /\ canBuild
  /\ manager' = getWorkspaceApiClientManager
  /\ configInstance' = IF mustBuild THEN getWorkspaceConfig ELSE configInstance
  /\ loads' = IF mustBuild /\ mustLoad THEN loads + 1 ELSE loads
  /\ discoveredBy' = IF mustBuild /\ mustLoad THEN c ELSE discoveredBy
  /\ managers' = IF mustBuild THEN managers + 1 ELSE managers

GetWorkspaceApiClientManager(c) ==
  /\ AcquireManager(c)
  /\ last' = Result(c, "getWorkspaceApiClientManager", undefined,
                    getWorkspaceApiClientManager.id)
  /\ UNCHANGED <<env, constructed, configResets, envWrites>>

ResetWorkspaceApiClientManager(c) ==
  /\ manager' = Null
  /\ constructed' = {}
  /\ last' = Result(c, "resetWorkspaceApiClientManager", undefined, undefined)
  /\ UNCHANGED <<env, configInstance, loads, managers, configResets, envWrites,
                 discoveredBy>>

ResolveWorkspaceContext(c, workspaceName) ==
  /\ AcquireManager(c)
  /\ last' = Result(c, "resolveWorkspaceContext", workspaceName,
                    getInstanceContext(getWorkspaceApiClientManager, workspaceName))
  /\ UNCHANGED <<env, constructed, configResets, envWrites>>

ShouldShowWorkspaceParam(c) ==
  /\ AcquireManager(c)
  /\ last' = Result(c, "shouldShowWorkspaceParam", undefined,
                    isMultiWorkspace(getWorkspaceApiClientManager))
  /\ UNCHANGED <<env, constructed, configResets, envWrites>>

schemaHead ==
  <<"W", "o", "r", "k", "s", "p", "a", "c", "e", " ", "t", "o", " ", "u", "s", "e", ".",
    " ", "A", "v", "a", "i", "l", "a", "b", "l", "e", ":", " ">>
schemaDefault == <<".", " ", "D", "e", "f", "a", "u", "l", "t", ":", " ">>
stringType == <<"s", "t", "r", "i", "n", "g">>

getWorkspaceParamSchema(m) ==
  IF ~isMultiWorkspace(m) THEN Null
  ELSE LET workspaces == managerGetAvailableWorkspaces(m)
           defaultWs == getDefaultWorkspace(m)
       IN [type |-> stringType,
           description |-> schemaHead \o join(workspaces, commaSpace)
                             \o (IF Truthy(defaultWs) THEN schemaDefault \o defaultWs
                                 ELSE <<>>),
           enum |-> workspaces]

GetWorkspaceParamSchema(c) ==
  /\ AcquireManager(c)
  /\ last' = Result(c, "getWorkspaceParamSchema", undefined,
                    getWorkspaceParamSchema(getWorkspaceApiClientManager))
  /\ UNCHANGED <<env, constructed, configResets, envWrites>>

(***************************************************************************)
(* Methods called on the manager the singleton holds                       *)
(***************************************************************************)
GetClient(c, workspaceName) ==
  /\ manager # Null
  /\ LET n == Cardinality(constructed) + 1
         r == getClient(manager, workspaceName, n)
     IN /\ r.manager # manager => n <= MaxClients
        /\ manager' = r.manager
        /\ constructed' =
             IF r.manager # manager
             THEN constructed \cup
                    {[manager |-> manager.id,
                      name |-> getWorkspace(manager.workspaceConfig, workspaceName).name,
                      client |-> r.client,
                      by |-> c]}
             ELSE constructed
        /\ last' = Result(c, "getClient", workspaceName, r.client)
  /\ UNCHANGED <<env, configInstance, loads, managers, configResets,
                 envWrites, discoveredBy>>

\* a method that reads the manager and empties its pool
QueryClearingPool(c, op, arg, ret) ==
  /\ manager # Null
  /\ manager' = [manager EXCEPT !.clients = <<>>]
  /\ last' = Result(c, op, arg, ret)
  /\ UNCHANGED <<env, configInstance, loads, managers, constructed,
                 configResets, envWrites, discoveredBy>>

\* a method that only reads the manager
Query(c, op, arg, ret) ==
  /\ manager # Null
  /\ last' = Result(c, op, arg, ret)
  /\ UNCHANGED <<env, configInstance, manager, loads, managers, constructed,
                 configResets, envWrites, discoveredBy>>

GetInstanceContext(c, workspaceName) ==
  Query(c, "getInstanceContext", workspaceName,
        getInstanceContext(manager, workspaceName))

IsMultiWorkspace(c) ==
  Query(c, "isMultiWorkspace", undefined, isMultiWorkspace(manager))

GetAvailableWorkspaces(c) ==
  Query(c, "getAvailableWorkspaces", undefined, managerGetAvailableWorkspaces(manager))

GetDefaultWorkspace(c) ==
  Query(c, "getDefaultWorkspace", undefined, getDefaultWorkspace(manager))

ManagerGetWorkspaceConfig(c, workspaceName) ==
  Query(c, "manager.getWorkspaceConfig", workspaceName,
        managerGetWorkspaceConfig(manager, workspaceName))

GetWorkspaceNotFoundError(c, workspaceName) ==
  Query(c, "getWorkspaceNotFoundError", workspaceName,
        getWorkspaceNotFoundError(manager, workspaceName))

(***************************************************************************)
(* Environments                                                            *)
(***************************************************************************)
Entry(k, v) == [key |-> k, value |-> v]

Suffixes == {<<"A">>, <<"a">>, <<"B">>}

urlVar(sfx) == urlPrefix \o sfx
tokenVar(sfx) == tokenPrefix \o sfx
urlValue(sfx) == <<"u">> \o sfx
tokenValue(sfx) == <<"t">> \o sfx

\* N8N_URL_DEFAULT: a workspace whose name is that of the fallback entry
sfxDefault == <<"D", "E", "F", "A", "U", "L", "T">>

\* one N8N_URL_<sfx> variable and what there is of its N8N_TOKEN_<sfx>
\* (N8N_URL_ itself, with an empty suffix, comes only with both values set)
Candidates ==
  {[sfx |-> sfx, url |-> k[1], token |-> k[2]] :
     sfx \in Suffixes,
     k \in {<<"set", "set">>, <<"set", "absent">>, <<"set", "empty">>,
            <<"empty", "set">>}}
  \cup {[sfx |-> <<>>, url |-> "set", token |-> "set"]}
  \cup {[sfx |-> sfxDefault, url |-> "set", token |-> k] : k \in {"set", "absent"}}

CandidateLists ==
  UNION {{cs \in [1..n -> Candidates] :
            \A i, j \in 1..n : i # j => cs[i].sfx # cs[j].sfx} : n \in 0..MaxUrlVars}

RECURSIVE urlEntries(_)
urlEntries(cs) ==
  IF cs = <<>> THEN <<>>
  ELSE <<Entry(urlVar(cs[1].sfx),
               IF cs[1].url = "set" THEN urlValue(cs[1].sfx) ELSE <<>>)>>
         \o urlEntries(Tail(cs))

RECURSIVE tokenEntries(_)
tokenEntries(cs) ==
  IF cs = <<>> THEN <<>>
  ELSE (IF cs[1].token = "absent" THEN <<>>
        ELSE <<Entry(tokenVar(cs[1].sfx),
                     IF cs[1].token = "set" THEN tokenValue(cs[1].sfx) ELSE <<>>)>>)
         \o tokenEntries(Tail(cs))

FallbackEntries ==
  {<<>>,
   <<Entry(N8N_API_URL, <<"f">>)>>,
   <<Entry(N8N_API_URL, <<"f">>), Entry(N8N_API_KEY, <<"k">>)>>}

DefaultEntries ==
  {<<>>,
   <<Entry(N8N_DEFAULT_WORKSPACE, <<>>)>>,
   <<Entry(N8N_DEFAULT_WORKSPACE, <<"B">>)>>,
   <<Entry(N8N_DEFAULT_WORKSPACE, <<"x">>)>>}

\* the N8N_URL_* variables in any order, then their tokens, then either the
\* fallback pair or the default selector
TailEntries ==
  {f \o <<>> : f \in FallbackEntries} \cup {<<>> \o d : d \in DefaultEntries}

DiscoveryEnvs ==
  {urlEntries(cs) \o tokenEntries(cs) \o t : cs \in CandidateLists, t \in TailEntries}

NameArgs == {undefined, <<>>, <<"A">>, <<"b">>, <<"x">>}

(***************************************************************************)
(* Specifications                                                          *)
(***************************************************************************)
Start ==
  /\ configInstance = Null
  /\ manager = Null
  /\ loads = 0
  /\ managers = 0
  /\ constructed = {}
  /\ configResets = 0
  /\ envWrites = 0
  /\ discoveredBy = 0
  /\ last = Result(0, "none", undefined, undefined)

InitDiscovery == env \in DiscoveryEnvs /\ Start

NextDiscovery ==
  \/ GetWorkspaceConfig(1)
  \/ ShouldShowWorkspaceParam(1)
  \/ GetWorkspaceParamSchema(1)
  \/ \E n \in NameArgs :
       \/ ResolveWorkspaceContext(1, n)
       \/ GetClient(1, n)
       \/ GetWorkspaceNotFoundError(1, n)

SpecDiscovery == InitDiscovery /\ [][NextDiscovery]_vars

(***************************************************************************)
(* Lifecycle: both singletons, their resets, and an environment that the   *)
(* host changes while the process runs                                     *)
(***************************************************************************)
SetEnv(k, v) ==
  /\ envWrites < MaxEnvWrites
  /\ env' = envSet(env, k, v)
  /\ envWrites' = envWrites + 1
  /\ UNCHANGED <<configInstance, manager, loads, managers, constructed,
                 configResets, discoveredBy, last>>

DeleteEnv(k) ==
  /\ envWrites < MaxEnvWrites
  /\ k \in envKeys(env)
  /\ env' = envDelete(env, k)
  /\ envWrites' = envWrites + 1
  /\ UNCHANGED <<configInstance, manager, loads, managers, constructed,
                 configResets, discoveredBy, last>>

sfxA == <<"A">>
sfxB == <<"B">>

LifecycleEnvs ==
  {<<Entry(urlVar(sfxA), urlValue(sfxA))>>,
   <<Entry(urlVar(sfxA), urlValue(sfxA)), Entry(tokenVar(sfxA), tokenValue(sfxA))>>,
   <<Entry(urlVar(sfxA), urlValue(sfxA)), Entry(urlVar(sfxB), urlValue(sfxB)),
     Entry(tokenVar(sfxA), tokenValue(sfxA)), Entry(tokenVar(sfxB), tokenValue(sfxB))>>}

EnvWrites ==
  {Entry(urlVar(sfxA), <<"v">>),
   Entry(tokenVar(sfxA), tokenValue(sfxA)),
   Entry(N8N_DEFAULT_WORKSPACE, <<"B">>)}

EnvDeletes == {tokenVar(sfxB)}

LifecycleNames == {undefined, <<"A">>, <<"b">>}

Init == env \in LifecycleEnvs /\ Start

Next ==
  \/ \E w \in EnvWrites : SetEnv(w.key, w.value)
  \/ \E k \in EnvDeletes : DeleteEnv(k)
  \/ GetWorkspaceConfig(1)
  \/ ResetWorkspaceConfig(1)
  \/ GetWorkspaceApiClientManager(1)
  \/ ResetWorkspaceApiClientManager(1)
  \/ IsMultiWorkspace(1)
  \/ GetAvailableWorkspaces(1)
  \/ GetDefaultWorkspace(1)
  \/ \E n \in LifecycleNames :
       \/ ResolveWorkspaceContext(1, n)
       \/ GetClient(1, n)
       \/ GetInstanceContext(1, n)
       \/ ManagerGetWorkspaceConfig(1, n)
       \/ GetWorkspaceNotFoundError(1, n)

Spec == Init /\ [][Next]_vars

(***************************************************************************)
(* Two request handlers whose calls interleave in any order on the lazily  *)
(* initialised paths                                                       *)
(***************************************************************************)
Callers == {1, 2}

NextRace ==
  \/ ResetWorkspaceConfig(1)
  \/ ResetWorkspaceApiClientManager(1)
  \/ \E c \in Callers :
       \/ GetWorkspaceConfig(c)
       \/ GetWorkspaceApiClientManager(c)
       \/ \E n \in LifecycleNames :
            \/ ResolveWorkspaceContext(c, n)
            \/ GetClient(c, n)

SpecRace == Init /\ [][NextRace]_vars

(***************************************************************************)
(* Properties                                                              *)
(***************************************************************************)
\* the workspace name a look-up of arg resolves to in the manager's registry
ResolvedName(arg) ==
  IF arg # undefined /\ arg # <<>> THEN toLowerCase(arg)
  ELSE manager.workspaceConfig.defaultWorkspace

\* C1: within one manager at most one client handle is ever constructed per
\* workspace name, and a getClient that finds the workspace returns exactly
\* that handle, whichever spelling of the name (or the default) led to it.
C1_OneHandlePerName ==
  /\ \A x, y \in constructed :
       (x.manager = y.manager /\ x.name = y.name) => x.client = y.client
  /\ (last.op = "getClient" /\ last.ret # Null) =>
       \E x \in constructed :
         /\ x.manager = manager.id
         /\ x.name = ResolvedName(last.arg)
         /\ x.client = last.ret

\* a getClient has returned a handle that was built before the newest one:
\* a repeated look-up served from the pool
C1_Witness ==
  /\ last.op = "getClient"
  /\ last.ret # Null
  /\ last.ret.id < Cardinality(constructed)
  /\ \E x \in constructed : x.manager = manager.id /\ x.client = last.ret

\* what resolve(arg) yields when discovery is run on environment e
FreshContext(e, arg) ==
  LET w == getWorkspace(loadWorkspaceConfig(e), arg)
  IN IF w = Null THEN Null ELSE workspaceToInstanceContext(w)

\* C2: after resetWorkspaceConfig or resetWorkspaceApiClientManager applied to
\* an initialized singleton, the next resolveWorkspaceContext returns what
\* discovery on the environment of that moment yields.
C2_ResetRediscovers ==
  [][((\/ last.op = "resetWorkspaceConfig" /\ loads > 0
       \/ last.op = "resetWorkspaceApiClientManager" /\ managers > 0)
      /\ last'.op = "resolveWorkspaceContext")
     => last'.ret = FreshContext(env, last'.arg)]_vars

InitialisingOps == {"getWorkspaceConfig", "getWorkspaceApiClientManager"}

\* C3: when two callers race on the first access, discovery runs at most once
\* (once in all while no reset has happened): after the call of one caller
\* has initialised the registry, the call of the other caller, whatever the
\* order, runs no discovery, leaves the registry object in place and returns
\* the same object the first caller got.
C3_DiscoveryOnceUnderRace ==
  /\ [](configResets = 0 => loads <= 1)
  /\ [][(/\ last.op \in InitialisingOps
         /\ configInstance # Null
         /\ last'.op \in InitialisingOps
         /\ last'.caller # last.caller)
        => /\ loads' = loads
           /\ configInstance' = configInstance
           /\ (last'.op = last.op => last'.ret = last.ret)]_vars

\* a caller has been handed the registry that the other caller's call discovered
C3_Witness ==
  /\ last.op = "getWorkspaceConfig"
  /\ last.caller # discoveredBy
  /\ discoveredBy \in Callers
  /\ configResets = 0
  /\ loads = 1
  /\ last.ret = configInstance

\* C4: when two callers make getClient calls for the same workspace back to
\* back on the same manager, the second call constructs nothing, leaves the
\* pool as it is and returns the handle the first call returned.
C4_OneHandleUnderRace ==
  [][(/\ last.op = "getClient"
      /\ last'.op = "getClient"
      /\ last'.caller # last.caller
      /\ last.ret # Null
      /\ ResolvedName(last'.arg) = ResolvedName(last.arg))
     => /\ last'.ret = last.ret
        /\ constructed' = constructed
        /\ manager' = manager]_vars

\* a caller has been handed the handle that the other caller's first getClient
\* constructed, and it is the only one constructed for that name
C4_Witness ==
  /\ last.op = "getClient"
  /\ last.ret # Null
  /\ \E x \in constructed :
       /\ x.manager = manager.id
       /\ x.client = last.ret
       /\ x.by # last.caller
       /\ \A y \in constructed : (y.manager = x.manager /\ y.name = x.name) => y = x

ResolveOps == {"resolveWorkspaceContext", "getInstanceContext"}

\* the context returned by the last call is the one of the registry entry the
\* requested name resolves to, with tenant identifier workspace-<name>
CarriesDefinition ==
  \E i \in 1..Len(manager.workspaceConfig.workspaces) :
    LET w == manager.workspaceConfig.workspaces[i]
    IN /\ w.name = ResolvedName(last.arg)
       /\ last.ret.n8nApiUrl = w.url
       /\ last.ret.n8nApiKey = w.token
       /\ last.ret.instanceId =
            <<"w", "o", "r", "k", "s", "p", "a", "c", "e", "-">> \o w.name

\* C6 (as stated): after a successful resolve the pool holds a client handle
\* for the resolved workspace and the context carries the definition's
\* endpoint, credential and tenant identifier.
C6_ResolveFillsPool ==
  (last.op \in ResolveOps /\ last.ret # Null) =>
    /\ clientsHas(manager.clients, ResolvedName(last.arg))
    /\ CarriesDefinition

\* C6 (amended): a successful resolve returns a context carrying the
\* definition's endpoint, credential and tenant identifier workspace-<name>,
\* and it does not go through the pool: it constructs no handle and leaves the
\* pool as it was (empty, when the call built the manager).
C6_ResolveDerivesContext ==
  /\ []((last.op \in ResolveOps /\ last.ret # Null) => CarriesDefinition)
  /\ [][last'.op \in ResolveOps =>
          /\ constructed' = constructed
          /\ manager'.clients = IF manager = Null THEN <<>> ELSE manager.clients]_vars

\* a resolve has succeeded and the pool holds no handle
C6_Witness ==
  /\ last.op = "resolveWorkspaceContext"
  /\ last.ret # Null
  /\ CarriesDefinition
  /\ manager.clients = <<>>
  /\ constructed = {}

\* the parts of a text between the occurrences of ", "
RECURSIVE SplitList(_)
SplitList(s) ==
  LET cuts == {i \in 1..(Len(s) - 1) : s[i] = "," /\ s[i + 1] = " "}
  IN IF cuts = {} THEN <<s>>
     ELSE LET i == CHOOSE c \in cuts : \A d \in cuts : c <= d
          IN <<SubSeq(s, 1, i - 1)>> \o SplitList(SubSeq(s, i + 2, Len(s)))

\* the name of the last call is, lower-cased, no key of the manager's registry
UnknownName == ~MapHas(manager.workspaceConfig.workspaces, toLowerCase(last.arg))

\* the message the last call returned names the requested workspace and lists
\* the names of the manager's registry in order, or says none
NamesRequestAndList ==
  LET head == <<"W", "o", "r", "k", "s", "p", "a", "c", "e", " ", "'">>
                \o last.arg \o
              <<"'", " ", "n", "o", "t", " ", "f", "o", "u", "n", "d", ".", " ",
                "A", "v", "a", "i", "l", "a", "b", "l", "e", " ",
                "w", "o", "r", "k", "s", "p", "a", "c", "e", "s", ":", " ">>
      names == MapKeys(manager.workspaceConfig.workspaces)
  IN /\ startsWith(last.ret, head)
     /\ LET list == substring(last.ret, Len(head))
        IN IF names = <<>> THEN list = <<"n", "o", "n", "e">>
           ELSE SplitList(list) = names

NotFoundFor(supplied) ==
  /\ (last.op \in {"resolveWorkspaceContext", "getClient"} /\ supplied /\ UnknownName)
       => last.ret = Null
  /\ (last.op = "getWorkspaceNotFoundError" /\ supplied /\ UnknownName)
       => NamesRequestAndList

\* C7 (as stated): for every supplied name that, lower-cased, is no key of the
\* registry, resolve and getClient return nothing and the not-found message
\* carries the name and lists the registry's names in order, or 'none'.
C7_UnknownNameNotFound == NotFoundFor(last.arg # undefined)

\* C7 (amended): the same for every supplied name that is not the empty string
\* (the empty string is taken as no name: the default workspace is resolved
\* and the message is the generic one).
C7_UnknownNonEmptyNameNotFound == NotFoundFor(Truthy(last.arg))

\* the message for an unknown name has listed the two names of the registry
C7_Witness ==
  /\ last.op = "getWorkspaceNotFoundError"
  /\ Truthy(last.arg)
  /\ UnknownName
  /\ Len(manager.workspaceConfig.workspaces) = 2
  /\ NamesRequestAndList

\* entry i of e is an N8N_URL_<NAME> variable with a non-empty name and value
\* whose N8N_TOKEN_<NAME> is set to a non-empty value
ValidPairAt(e, i) ==
  /\ startsWith(e[i].key, urlPrefix)
  /\ Len(e[i].key) > Len(urlPrefix)
  /\ e[i].value # <<>>
  /\ \E j \in 1..Len(e) :
       /\ e[j].key = tokenPrefix \o SubSeq(e[i].key, Len(urlPrefix) + 1, Len(e[i].key))
       /\ e[j].value # <<>>

ValidPairs(e) == {i \in 1..Len(e) : ValidPairAt(e, i)}

FallbackPairSet(e) ==
  /\ \E i \in 1..Len(e) : e[i].key = N8N_API_URL /\ e[i].value # <<>>
  /\ \E i \in 1..Len(e) : e[i].key = N8N_API_KEY /\ e[i].value # <<>>

\* C8: when the environment has no valid prefixed pair and the fallback pair is
\* not fully set, the registry is empty, the default is none, resolve() without
\* a name returns nothing and the message for no name is the fixed generic one.
C8_NothingConfigured ==
  (ValidPairs(env) = {} /\ ~FallbackPairSet(env)) =>
    /\ configInstance # Null =>
         (configInstance.workspaces = <<>> /\ configInstance.defaultWorkspace = null)
    /\ manager # Null =>
         /\ manager.workspaceConfig.workspaces = <<>>
         /\ manager.workspaceConfig.defaultWorkspace = null
         /\ (last.op \in {"resolveWorkspaceContext", "getClient"} /\ last.arg = undefined)
              => last.ret = Null
         /\ (last.op = "getWorkspaceNotFoundError" /\ last.arg = undefined)
              => last.ret = notConfiguredMessage

\* with only an N8N_URL_<NAME> variable set (no token), the registry is empty
\* and the message asked for no name is the generic one
C8_Witness ==
  /\ Len(env) = 1
  /\ startsWith(env[1].key, urlPrefix)
  /\ env[1].value # <<>>
  /\ manager # Null
  /\ manager.workspaceConfig.workspaces = <<>>
  /\ last.op = "getWorkspaceNotFoundError"
  /\ last.arg = undefined
  /\ last.ret = notConfiguredMessage

\* the <NAME> of the N8N_URL_<NAME> variable at entry i
SuffixAt(e, i) == SubSeq(e[i].key, Len(urlPrefix) + 1, Len(e[i].key))

\* the name discovered first: that of the first valid pair in the order of the
\* environment, or 'default' when only the fallback pair yields an entry
FirstDiscovered(e) ==
  IF ValidPairs(e) # {}
  THEN toLowerCase(SuffixAt(e, CHOOSE i \in ValidPairs(e) : \A j \in ValidPairs(e) : i <= j))
  ELSE <<"d", "e", "f", "a", "u", "l", "t">>

\* C9: after discovery, if N8N_DEFAULT_WORKSPACE lower-cased names an entry,
\* the default is that name; otherwise, with entries, it is the name discovered
\* first, which is the first key of the registry; with no entry it is none.
C9_DefaultSelection ==
  configInstance # Null =>
    LET ws == configInstance.workspaces
        sel == envGet(env, N8N_DEFAULT_WORKSPACE)
    IN IF sel # undefined /\ MapHas(ws, toLowerCase(sel))
       THEN configInstance.defaultWorkspace = toLowerCase(sel)
       ELSE IF Len(ws) > 0
            THEN /\ configInstance.defaultWorkspace = FirstDiscovered(env)
                 /\ configInstance.defaultWorkspace = ws[1].name
            ELSE configInstance.defaultWorkspace = null

\* the selector, written in another case, has picked an entry that is not the
\* first one discovered
C9_Witness ==
  /\ configInstance # Null
  /\ Len(configInstance.workspaces) = 2
  /\ envGet(env, N8N_DEFAULT_WORKSPACE) # undefined
  /\ envGet(env, N8N_DEFAULT_WORKSPACE) # configInstance.defaultWorkspace
  /\ configInstance.defaultWorkspace = toLowerCase(envGet(env, N8N_DEFAULT_WORKSPACE))
  /\ configInstance.defaultWorkspace # FirstDiscovered(env)

ValidSuffixes(e) == {SuffixAt(e, i) : i \in ValidPairs(e)}

IsLowerCase(s) == \A i \in 1..Len(s) : \A k \in 1..Len(UpperChars) : s[i] # UpperChars[k]

RegistryNames == {configInstance.workspaces[i].name : i \in 1..Len(configInstance.workspaces)}

\* C10 (as stated): with at least one valid pair, the registry has as many
\* definitions as there are distinct valid <NAME> suffixes, all names lower-case.
C10_SizeIsSuffixCount ==
  (configInstance # Null /\ ValidPairs(env) # {}) =>
    /\ Len(configInstance.workspaces) = Cardinality(ValidSuffixes(env))
    /\ \A n \in RegistryNames : IsLowerCase(n)

\* C10 (amended): with at least one valid pair, the registry has as many
\* definitions as there are distinct lower-cased valid <NAME> suffixes (two
\* suffixes that differ only in case yield one definition), its names are
\* exactly those lower-cased suffixes, and every name is lower-case.
C10_SizeIsLoweredSuffixCount ==
  (configInstance # Null /\ ValidPairs(env) # {}) =>
    /\ Len(configInstance.workspaces)
         = Cardinality({toLowerCase(x) : x \in ValidSuffixes(env)})
    /\ RegistryNames = {toLowerCase(x) : x \in ValidSuffixes(env)}
    /\ \A n \in RegistryNames : IsLowerCase(n)

\* two valid pairs whose names differ only in case have given one definition
C10_Witness ==
  /\ configInstance # Null
  /\ Cardinality(ValidSuffixes(env)) = 2
  /\ Len(configInstance.workspaces) = 1
  /\ IsLowerCase(configInstance.workspaces[1].name)

\* entry i of e is an N8N_URL_<NAME> variable whose N8N_TOKEN_<NAME> is absent
\* or empty
UnpairedUrlAt(e, i) ==
  /\ startsWith(e[i].key, urlPrefix)
  /\ ~\E j \in 1..Len(e) :
        /\ e[j].key = tokenPrefix \o SuffixAt(e, i)
        /\ e[j].value # <<>>

UnpairedUrls(e) == {i \in 1..Len(e) : UnpairedUrlAt(e, i)}

\* C11 (as stated): for every N8N_URL_<NAME> variable without a non-empty
\* N8N_TOKEN_<NAME>, the lower-cased <NAME> is no key of the discovered registry.
C11_UnpairedNameAbsent ==
  configInstance # Null =>
    \A i \in UnpairedUrls(env) :
      ~MapHas(configInstance.workspaces, toLowerCase(SuffixAt(env, i)))

\* C11 (amended): for every N8N_URL_<NAME> variable without a non-empty
\* N8N_TOKEN_<NAME>, no definition of the registry is built from it (none
\* records it as its urlEnvVar or carries an empty or missing token), and its
\* lower-cased <NAME> is a key only when another, valid pair normalises to the
\* same name or when the name is 'default' and the fallback pair supplied it.
C11_UnpairedMakesNoEntry ==
  configInstance # Null =>
    /\ \A k \in 1..Len(configInstance.workspaces) :
         Truthy(configInstance.workspaces[k].token)
    /\ \A i \in UnpairedUrls(env) :
         LET name == toLowerCase(SuffixAt(env, i))
         IN /\ \A k \in 1..Len(configInstance.workspaces) :
                 configInstance.workspaces[k].urlEnvVar # env[i].key
            /\ MapHas(configInstance.workspaces, name) =>
                 \/ \E j \in ValidPairs(env) : toLowerCase(SuffixAt(env, j)) = name
                 \/ /\ name = <<"d", "e", "f", "a", "u", "l", "t">>
                    /\ ValidPairs(env) = {}
                    /\ FallbackPairSet(env)

\* a URL variable without token has been dropped while the valid pair of the
\* same name in another case has given the entry
C11_Witness ==
  /\ configInstance # Null
  /\ \E i \in UnpairedUrls(env) :
       /\ env[i].value # <<>>
       /\ MapHas(configInstance.workspaces, toLowerCase(SuffixAt(env, i)))
       /\ MapGet(configInstance.workspaces, toLowerCase(SuffixAt(env, i))).urlEnvVar
            # env[i].key
       /\ Len(configInstance.workspaces) = 1

\* the definition the fallback pair of e gives
FallbackDefinition(e) ==
  [name |-> <<"d", "e", "f", "a", "u", "l", "t">>,
   url |-> envGet(e, N8N_API_URL),
   token |-> envGet(e, N8N_API_KEY),
   urlEnvVar |-> N8N_API_URL,
   tokenEnvVar |-> N8N_API_KEY]

\* a definition of the registry comes from the fallback pair
HasFallbackEntry ==
  \E k \in 1..Len(configInstance.workspaces) :
    configInstance.workspaces[k].urlEnvVar = N8N_API_URL

\* C12: the registry holds an entry made from N8N_API_URL / N8N_API_KEY exactly
\* when no prefixed pair is valid and both variables are non-empty; it is then
\* the only entry, named 'default' and built from the two values; when the
\* scan has found an entry the fallback variables add nothing and every entry
\* is that of a prefixed pair.
C12_FallbackExactlyWhenScanEmpty ==
  configInstance # Null =>
    /\ HasFallbackEntry <=> (ValidPairs(env) = {} /\ FallbackPairSet(env))
    /\ HasFallbackEntry => configInstance.workspaces = <<FallbackDefinition(env)>>
    /\ ValidPairs(env) # {} =>
         /\ RegistryNames = {toLowerCase(x) : x \in ValidSuffixes(env)}
         /\ \A k \in 1..Len(configInstance.workspaces) :
              /\ startsWith(configInstance.workspaces[k].urlEnvVar, urlPrefix)
              /\ configInstance.workspaces[k].url
                   = envGet(env, configInstance.workspaces[k].urlEnvVar)

\* with a token-less URL variable and the fallback pair, the registry is the
\* single fallback entry
C12_Witness ==
  /\ configInstance # Null
  /\ UnpairedUrls(env) # {}
  /\ FallbackPairSet(env)
  /\ configInstance.workspaces = <<FallbackDefinition(env)>>
  /\ configInstance.defaultWorkspace = <<"d", "e", "f", "a", "u", "l", "t">>

\* the context of the entry of the manager's registry keyed k
ContextOfKey(k) ==
  LET w == MapGet(manager.workspaceConfig.workspaces, k)
  IN [n8nApiUrl |-> w.url,
      n8nApiKey |-> w.token,
      instanceId |-> <<"w", "o", "r", "k", "s", "p", "a", "c", "e", "-">> \o k]

\* C13: for every name n supplied to resolve, the result is that of resolving
\* lower-case(n); when lower-case(n) is a key of the registry it is that
\* workspace's endpoint and credential with tenant id 'workspace-' followed by
\* the lower-case name; a getClient by name returns a handle for the endpoint
\* and credential of the same entry.
C13_LookupCaseInsensitive ==
  (manager # Null /\ last.arg # undefined) =>
    LET lowered == toLowerCase(last.arg)
        ws == manager.workspaceConfig.workspaces
    IN /\ last.op \in ResolveOps =>
            /\ last.ret = getInstanceContext(manager, lowered)
            /\ MapHas(ws, lowered) => last.ret = ContextOfKey(lowered)
       /\ (last.op = "getClient" /\ MapHas(ws, lowered)) =>
            /\ last.ret # Null
            /\ last.ret.baseUrl = MapGet(ws, lowered).url
            /\ last.ret.apiKey = MapGet(ws, lowered).token

\* resolve('A') has resolved workspace 'a'
C13_Witness ==
  /\ last.op = "resolveWorkspaceContext"
  /\ last.arg = <<"A">>
  /\ last.ret # Null
  /\ last.ret = ContextOfKey(<<"a">>)
  /\ last.ret.instanceId = <<"w", "o", "r", "k", "s", "p", "a", "c", "e", "-", "a">>

\* the default of registry config is none exactly when it has no definition,
\* and otherwise one of its keys
DefaultIsKeyOrNone(config) ==
  /\ config.defaultWorkspace = null <=> config.workspaces = <<>>
  /\ config.defaultWorkspace # null =>
       MapHas(config.workspaces, config.defaultWorkspace)

\* C14: in every registry the default is none exactly when there is no
\* definition and otherwise a key; resolve() without a name on a non-empty
\* registry returns the context of the default workspace; with exactly one
\* workspace that is the sole workspace's context, and isMultiWorkspace is
\* false.
C14_DefaultIsKeyAndResolves ==
  /\ configInstance # Null => DefaultIsKeyOrNone(configInstance)
  /\ manager # Null =>
       LET ws == manager.workspaceConfig.workspaces
       IN /\ DefaultIsKeyOrNone(manager.workspaceConfig)
          /\ (last.op \in ResolveOps /\ last.arg = undefined /\ Len(ws) > 0) =>
               /\ last.ret # Null
               /\ last.ret = ContextOfKey(manager.workspaceConfig.defaultWorkspace)
               /\ Len(ws) = 1 => last.ret = ContextOfKey(ws[1].name)
          /\ last.op = "shouldShowWorkspaceParam" => last.ret = (Len(ws) > 1)
          /\ Len(ws) = 1 => ~isMultiWorkspace(manager)

\* with one workspace, resolve() without a name has returned its context
C14_Witness ==
  /\ manager # Null
  /\ Len(manager.workspaceConfig.workspaces) = 1
  /\ ~isMultiWorkspace(manager)
  /\ last.op = "resolveWorkspaceContext"
  /\ last.arg = undefined
  /\ last.ret # Null
  /\ last.ret = ContextOfKey(manager.workspaceConfig.workspaces[1].name)

\* C15: getWorkspaceParamSchema returns a schema if and only if more than one
\* workspace is configured; the schema is of type string and its enum is the
\* list of available names in registry order; with zero or one workspace it
\* returns null and shouldShowWorkspaceParam returns false.
C15_SchemaIffMulti ==
  manager # Null =>
    LET ws == manager.workspaceConfig.workspaces
    IN /\ last.op = "getWorkspaceParamSchema" =>
            /\ last.ret # Null <=> Len(ws) > 1
            /\ last.ret # Null =>
                 /\ last.ret.type = <<"s", "t", "r", "i", "n", "g">>
                 /\ last.ret.enum = managerGetAvailableWorkspaces(manager)
                 /\ last.ret.enum = [k \in 1..Len(ws) |-> ws[k].name]
       /\ last.op = "shouldShowWorkspaceParam" => (last.ret <=> Len(ws) > 1)
       /\ Len(ws) <= 1 =>
            /\ getWorkspaceParamSchema(manager) = Null
            /\ ~isMultiWorkspace(manager)

\* a schema has been produced listing the two workspaces of the registry
C15_Witness ==
  /\ manager # Null
  /\ last.op = "getWorkspaceParamSchema"
  /\ last.ret # Null
  /\ Len(last.ret.enum) = 2
  /\ last.ret.enum = managerGetAvailableWorkspaces(manager)

\* the calls whose results come from the registry and the pool
RegistryReads ==
  {"resolveWorkspaceContext", "getInstanceContext", "getClient",
   "getAvailableWorkspaces", "getDefaultWorkspace"}

\* C16: a change of the environment leaves the registry, the manager and the
\* pool as they are; and when a call is repeated with the same argument, with
\* nothing but changes of the environment in between (no reset, no other
\* call), it returns what it returned before, a getClient returning the
\* cached handle without constructing one.
C16_EnvReadOnlyAtDiscovery ==
  /\ [][env' # env =>
          UNCHANGED <<configInstance, manager, loads, managers, constructed, last>>]_vars
  /\ [][(/\ last'.op \in RegistryReads
         /\ last.op = last'.op
         /\ last.arg = last'.arg
         /\ env' = env)
        => /\ last'.ret = last.ret
           /\ constructed' = constructed
           /\ manager' = manager
           /\ configInstance' = configInstance]_vars

\* after the URL of workspace a has been changed in the environment, resolve
\* and getClient still give the endpoint that discovery read
C16_Witness ==
  /\ envWrites > 0
  /\ configResets = 0
  /\ manager # Null
  /\ manager.id = 1
  /\ last.op \in {"resolveWorkspaceContext", "getClient"}
  /\ last.arg = <<"A">>
  /\ last.ret # Null
  /\ envGet(env, urlPrefix \o <<"A">>) = <<"v">>
  /\ IF last.op = "getClient" THEN last.ret.baseUrl = <<"u", "A">>
     ELSE last.ret.n8nApiUrl = <<"u", "A">>

IntrospectionOps ==
  {"isMultiWorkspace", "getAvailableWorkspaces", "getDefaultWorkspace",
   "manager.getWorkspaceConfig", "getWorkspaceNotFoundError"}

\* C17: a call of isMultiWorkspace, getAvailableWorkspaces, getDefaultWorkspace,
\* getWorkspaceConfig(name) or getWorkspaceNotFoundError(name) on the manager
\* leaves the registry (definitions and default), the manager and its pool of
\* handles as they were, constructs no client and runs no discovery.
C17_IntrospectionHasNoEffect ==
  [][(last'.op \in IntrospectionOps /\ last' # last) =>
       /\ manager' = manager
       /\ manager'.clients = manager.clients
       /\ manager'.workspaceConfig = manager.workspaceConfig
       /\ configInstance' = configInstance
       /\ constructed' = constructed
       /\ loads' = loads
       /\ managers' = managers
       /\ env' = env]_vars

\* an introspection query has been answered on a manager whose pool holds the
\* two handles constructed so far
C17_Witness ==
  /\ last.op \in IntrospectionOps
  /\ manager # Null
  /\ Len(manager.clients) = 2
  /\ Cardinality(constructed) = 2
  /\ \A x \in constructed : clientsHas(manager.clients, x.name)

\* C18: the names that have a handle in the pool are names of the registry the
\* manager was built with, each once; a step other than
\* resetWorkspaceApiClientManager keeps the manager and every handle stored,
\* under its name, so the pool only grows; and a getClient that returns nothing
\* leaves the pool as it was.
C18_PoolWithinRegistryAndGrows ==
  /\ [](manager # Null =>
          /\ \A i \in 1..Len(manager.clients) :
               MapHas(manager.workspaceConfig.workspaces, manager.clients[i].name)
          /\ \A i, j \in 1..Len(manager.clients) :
               manager.clients[i].name = manager.clients[j].name => i = j)
  /\ [][(manager # Null /\ last'.op # "resetWorkspaceApiClientManager") =>
          /\ manager' # Null
          /\ manager'.id = manager.id
          /\ manager'.workspaceConfig = manager.workspaceConfig
          /\ Len(manager'.clients) >= Len(manager.clients)
          /\ \A i \in 1..Len(manager.clients) :
               manager'.clients[i] = manager.clients[i]]_vars
  /\ [][(last'.op = "getClient" /\ last'.ret = Null) =>
          /\ manager' = manager
          /\ constructed' = constructed]_vars

\* a getClient for a name the registry lacks has returned nothing and the pool
\* still holds the one handle it had
C18_Witness ==
  /\ manager # Null
  /\ last.op = "getClient"
  /\ last.ret = Null
  /\ last.arg # undefined
  /\ ~MapHas(manager.workspaceConfig.workspaces, toLowerCase(last.arg))
  /\ Len(manager.clients) = 1
  /\ Cardinality(constructed) = 1

\* definition w is made of one pair of e: its two variables carry the same
\* <NAME>, which lower-cased is its name, or are the fallback pair of 'default'
FromOnePair(w) ==
  \/ /\ startsWith(w.urlEnvVar, urlPrefix)
     /\ startsWith(w.tokenEnvVar, tokenPrefix)
     /\ SubSeq(w.urlEnvVar, Len(urlPrefix) + 1, Len(w.urlEnvVar))
          = SubSeq(w.tokenEnvVar, Len(tokenPrefix) + 1, Len(w.tokenEnvVar))
     /\ w.name = toLowerCase(SubSeq(w.urlEnvVar, Len(urlPrefix) + 1, Len(w.urlEnvVar)))
  \/ /\ w.urlEnvVar = N8N_API_URL
     /\ w.tokenEnvVar = N8N_API_KEY
     /\ w.name = <<"d", "e", "f", "a", "u", "l", "t">>

ConsistentDefinition(e, w) ==
  /\ w.name # <<>>
  /\ IsLowerCase(w.name)
  /\ w.url \notin {<<>>, undefined, null}
  /\ w.token \notin {<<>>, undefined, null}
  /\ FromOnePair(w)
  /\ w.url = envGet(e, w.urlEnvVar)
  /\ w.token = envGet(e, w.tokenEnvVar)

\* C19: every definition of a discovered registry has a non-empty lower-case
\* name under which it alone is stored, a non-empty url and token that are the
\* values of its own urlEnvVar and tokenEnvVar, and these two variables have
\* the same suffix (or are the fallback pair of 'default'); when two URL keys
\* normalise to one name, one definition of that name is in the registry, made
\* of one of the two pairs and not of the url of one with the token of the
\* other.
C19_DefinitionsConsistent ==
  configInstance # Null =>
    LET ws == configInstance.workspaces
    IN /\ \A k \in 1..Len(ws) : ConsistentDefinition(env, ws[k])
       /\ \A k, l \in 1..Len(ws) : ws[k].name = ws[l].name => k = l
       /\ \A i, j \in ValidPairs(env) :
            (i # j /\ toLowerCase(SuffixAt(env, i)) = toLowerCase(SuffixAt(env, j))) =>
              /\ Cardinality({k \in 1..Len(ws) :
                                ws[k].name = toLowerCase(SuffixAt(env, i))}) = 1
              /\ MapGet(ws, toLowerCase(SuffixAt(env, i))).urlEnvVar
                   \in {env[i].key, env[j].key}

\* of two valid pairs of one name, the registry holds the definition made of
\* the url and the token of the pair scanned last
C19_Witness ==
  /\ configInstance # Null
  /\ \E i, j \in ValidPairs(env) :
       /\ i < j
       /\ toLowerCase(SuffixAt(env, i)) = toLowerCase(SuffixAt(env, j))
       /\ LET w == MapGet(configInstance.workspaces, toLowerCase(SuffixAt(env, j)))
          IN /\ w.urlEnvVar = env[j].key
             /\ w.url = env[j].value
             /\ w.token = envGet(env, tokenPrefix \o SuffixAt(env, j))
             /\ w.token # envGet(env, tokenPrefix \o SuffixAt(env, i))

\* C20: a call with the empty string as workspace name gives what the call
\* without a name gives: resolve('') returns the default workspace's context
\* (nothing only when the registry is empty), getClient('') returns the handle
\* of the default workspace, and getWorkspaceNotFoundError('') returns the
\* generic message, not the one naming a workspace.
C20_EmptyNameIsNoName ==
  (manager # Null /\ last.arg = <<>>) =>
    LET config == manager.workspaceConfig
    IN /\ last.op \in ResolveOps =>
            /\ last.ret = getInstanceContext(manager, undefined)
            /\ IF config.workspaces = <<>> THEN last.ret = Null
               ELSE last.ret = ContextOfKey(config.defaultWorkspace)
       /\ last.op = "getClient" =>
            IF config.workspaces = <<>> THEN last.ret = Null
            ELSE /\ last.ret # Null
                 /\ clientsHas(manager.clients, config.defaultWorkspace)
                 /\ last.ret = clientsGet(manager.clients, config.defaultWorkspace)
                 /\ last.ret.baseUrl = MapGet(config.workspaces, config.defaultWorkspace).url
       /\ last.op = "getWorkspaceNotFoundError" =>
            /\ last.ret = getWorkspaceNotFoundError(manager, undefined)
            /\ last.ret = notConfiguredMessage

\* resolve('') has returned the context of the default workspace
C20_Witness ==
  /\ manager # Null
  /\ last.op = "resolveWorkspaceContext"
  /\ last.arg = <<>>
  /\ last.ret # Null
  /\ last.ret = ContextOfKey(manager.workspaceConfig.defaultWorkspace)
  /\ Len(manager.workspaceConfig.workspaces) = 2

====
